---- MODULE Spec2Model ----
(***************************************************************************)
(* Model of AudioPlaybackManager (src/src/audio_playback_server/manager.py) *)
(* and of the audio_playback tool handler (server.py).                     *)
(*                                                                         *)
(* The manager runs on one asyncio event loop: a coroutine runs without    *)
(* interruption between two awaits, so every action below is the code      *)
(* from one suspension point to the next.  The suspension points are the   *)
(* acquisition of self._lock when it is not free, the two waits of         *)
(* _stop_process and the wait of _monitor_process.                         *)
(*                                                                         *)
(* Not modelled: cancellation of a caller's own task, symbolic links under *)
(* the root directory, the argv built by _build_ffplay_command and the     *)
(* message texts (the `loop` argument only changes those two).             *)
(***************************************************************************)
EXTENDS Integers, Sequences, FiniteSets, TLC

\* ----------------------------------------------------------------- bounds
\* Number of tool calls issued over a run; calls may overlap.
MaxCalls == 3
\* The wall clock takes the values 0..MaxTime.
MaxTime == 1
\* The largest start_offset_ms a call is made with.
MaxOffset == 1
\* Longest filename, in path segments, given to _normalize_filename.
MaxSegs == 3

\* ------------------------------------------------------------- filenames
\* A filename is [abs, segs]: whether it has an absolute prefix, and its
\* path segments.  A segment is [name, ext]; ext = "" is "no suffix".
\* Optional values are sequences: <<>> is None, <<x>> is the value x.
None == <<>>

Some(x) == <<x>>

DotDot == [name |-> "..", ext |-> ""]

SubDir == [name |-> "sub", ext |-> ""]

ClipWav == [name |-> "clip", ext |-> "wav"]

ClipBare == [name |-> "clip", ext |-> ""]

Segments == {DotDot, SubDir, ClipWav, ClipBare}

\* config.root_dir, already canonical: /srv/audio
RootDir == <<[name |-> "srv", ext |-> ""], [name |-> "audio", ext |-> ""]>>

\* config.default_format
DefaultFormat == "wav"

\* The files that exist on disk, as canonical absolute paths.
ExistingFiles == {RootDir \o <<ClipWav>>, RootDir \o <<SubDir, ClipWav>>}

SeqsUpTo(S, n) == UNION {[1..k -> S] : k \in 0..n}

AllFilenames == [abs : BOOLEAN, segs : SeqsUpTo(Segments, MaxSegs)]

\* Path.with_suffix on a path whose last segment has no suffix: the suffix is
\* appended to the last segment's name (".." becomes the ordinary name "...wav").
WithSuffix(segs, fmt) ==
  [segs EXCEPT ![Len(segs)] = [name |-> segs[Len(segs)].name, ext |-> fmt]]

\* Path.resolve on an absolute path without symbolic links: a `..` segment
\* removes the segment before it, and stays at the filesystem root.
RECURSIVE Resolve(_, _)
Resolve(done, rest) ==
  IF rest = <<>> THEN done
  ELSE IF Head(rest) = DotDot
       THEN Resolve(IF done = <<>> THEN <<>> ELSE SubSeq(done, 1, Len(done) - 1),
                    Tail(rest))
       ELSE Resolve(Append(done, Head(rest)), Tail(rest))

IsPrefix(p, q) == Len(p) <= Len(q) /\ SubSeq(q, 1, Len(p)) = p

\* Variant: the resolved path is not compared with the root.
InsideRootAlways(resolved) == TRUE

\* root_resolved in resolved.parents or resolved == root_resolved
InsideRoot(resolved) == IsPrefix(RootDir, resolved)

\* _normalize_filename: [ok, rel, resolved]; ok = FALSE is the ValueError.
NormalizeFilename(f) ==
  IF f.segs = <<>> \/ f.abs
  THEN [ok |-> FALSE, rel |-> <<>>, resolved |-> <<>>]
  ELSE LET rel == IF f.segs[Len(f.segs)].ext = ""
                  THEN WithSuffix(f.segs, DefaultFormat)
                  ELSE f.segs
           resolved == Resolve(<<>>, RootDir \o rel)
       IN  IF InsideRoot(resolved)
           THEN [ok |-> TRUE, rel |-> rel, resolved |-> resolved]
           ELSE [ok |-> FALSE, rel |-> <<>>, resolved |-> <<>>]

\* resolved_path.exists()
Exists(resolved) == resolved \in ExistingFiles

\* ------------------------------------------------------- playback state
VARIABLES state, process, monitor_task, monitors, procs, lockHolder, waiters,
          calls, now, lastRet

vars == <<state, process, monitor_task, monitors, procs, lockHolder, waiters,
          calls, now, lastRet>>

CallIds == 1..MaxCalls

\* A player process is identified by the play call that spawned it.
Pids == CallIds

Times == 0..MaxTime

\* The dataclass PlaybackState with its field defaults.
PlaybackState(status, current_file, started_at_ms, start_offset_ms) ==
  [status |-> status, current_file |-> current_file,
   started_at_ms |-> started_at_ms, start_offset_ms |-> start_offset_ms]

StateOf(status) == PlaybackState(status, None, None, 0)

\* Variant: the elapsed time is added without the test for a negative value.
PositionEstimateUnclamped(s, t) ==
  IF s.status # "playing" \/ s.started_at_ms = None THEN None
  ELSE Some(s.start_offset_ms + (t - s.started_at_ms[1]))

\* PlaybackState._position_estimate at wall-clock time t
PositionEstimate(s, t) ==
  IF s.status # "playing" \/ s.started_at_ms = None THEN None
  ELSE LET elapsed == t - s.started_at_ms[1]
       IN  IF elapsed < 0 THEN Some(s.start_offset_ms)
           ELSE Some(s.start_offset_ms + elapsed)

\* PlaybackState.to_response at wall-clock time t
ToResponse(s, t) ==
  [status |-> s.status, current_file |-> s.current_file,
   started_at_ms |-> s.started_at_ms,
   position_estimate_ms |-> PositionEstimate(s, t)]

\* The part of the manager that one critical section rewrites, as a record.
Mgr ==
  [state |-> state, process |-> process, monitor_task |-> monitor_task,
   monitors |-> monitors, procs |-> procs, waiters |-> waiters]

SetMgr(m) ==
  /\ state' = m.state
  /\ process' = m.process
  /\ monitor_task' = m.monitor_task
  /\ monitors' = m.monitors
  /\ procs' = m.procs
  /\ waiters' = m.waiters

CallTask(i) == <<"call", i>>

MonitorTask(p) == <<"mon", p>>

\* A call: where it stands, its arguments while it still needs them, and
\* `proc`, the local variable `process` of _stop_process while it waits.
IdleCall ==
  [pc |-> "idle", op |-> "none", filename |-> None, offset |-> 0, proc |-> 0]

DoneCall ==
  [pc |-> "done", op |-> "none", filename |-> None, offset |-> 0, proc |-> 0]

\* The last tool call that returned: its arguments and the tri-tuple it returned.
NoRet == [id |-> 0, op |-> "none", filename |-> None, offset |-> 0, success |-> FALSE,
          err |-> "none", response |-> ToResponse(StateOf("idle"), 0)]

\* asyncio.Lock.acquire takes the lock at once only when it is free and no
\* task is queued for it; otherwise the task queues, first come first served.
LockFree == lockHolder = 0 /\ waiters = <<>>

RemoveTask(w, t) == SelectSeq(w, LAMBDA x : x # t)

\* AudioPlaybackManager.__init__
Init ==
  /\ state = StateOf("idle")
  /\ process = 0
  /\ monitor_task = 0
  /\ monitors = [p \in Pids |-> "none"]
  /\ procs = [p \in Pids |-> "unspawned"]
  /\ lockHolder = 0
  /\ waiters = <<>>
  /\ calls = [i \in CallIds |-> IdleCall]
  /\ now = 0
  /\ lastRet = NoRet

\* ------------------------------------------------------------ the pieces
\* The tri-tuple a call returns, with the snapshot taken at the current time.
Return(i, op, f, off, success, err, s) ==
  /\ lastRet' = [id |-> i, op |-> op, filename |-> IF op = "play" THEN f ELSE None,
                 offset |-> IF op = "play" THEN off ELSE 0,
                 success |-> success, err |-> err,
                 response |-> ToResponse(s, now)]
  /\ calls' = [calls EXCEPT ![i] = DoneCall]

\* Variant: a cancelled monitor that was queued for the lock keeps its place
\* in the queue.
CancelMonitorKeepsPlace(m) ==
  LET p == m.monitor_task
  IN  IF p = 0 THEN m
      ELSE IF m.monitors[p] = "waiting"
           THEN [m EXCEPT !.monitors[p] = "cancelled"]
           ELSE IF m.monitors[p] = "locking"
                THEN [m EXCEPT !.monitors[p] = "aborted"]
                ELSE m

\* Task.cancel() on the monitor task held in _monitor_task: a monitor still
\* waiting for its process gets CancelledError at that await and goes on to
\* its finally block ("cancelled"); a monitor queued for the lock leaves the
\* queue and ends without reconciling ("aborted").
CancelMonitor(m) ==
  LET p == m.monitor_task
  IN  IF p = 0 THEN m
      ELSE IF m.monitors[p] = "waiting"
           THEN [m EXCEPT !.monitors[p] = "cancelled"]
           ELSE IF m.monitors[p] = "locking"
                THEN [m EXCEPT !.monitors[p] = "aborted",
                               !.waiters = RemoveTask(m.waiters, MonitorTask(p))]
                ELSE m

\* Variant: the finally block clears the handle and forgets the monitor task
\* without cancelling it.
StopProcessFinallyNoCancel(m) ==
  [m EXCEPT !.process = 0, !.monitor_task = 0]

\* _stop_process, the finally block: clear the handle, cancel the monitor.
StopProcessFinally(m) ==
  [CancelMonitor(m) EXCEPT !.process = 0, !.monitor_task = 0]

\* Variant: the spawned process is not kept as the handle.
StartPlaybackNoHandle(m, i, rel, off, t) ==
  [m EXCEPT !.procs[i] = "alive",
            !.state = PlaybackState("playing", Some(rel), Some(t), off),
            !.monitor_task = i,
            !.monitors[i] = "waiting"]

\* Variant: the new state forgets the offset the playback started from.
StartPlaybackNoOffset(m, i, rel, off, t) ==
  [m EXCEPT !.procs[i] = "alive",
            !.process = i,
            !.state = PlaybackState("playing", Some(rel), Some(t), 0),
            !.monitor_task = i,
            !.monitors[i] = "waiting"]

\* play, lines 88-96: the spawn succeeded; i is the new process.
StartPlayback(m, i, rel, off, t) ==
  [m EXCEPT !.procs[i] = "alive",
            !.process = i,
            !.state = PlaybackState("playing", Some(rel), Some(t), off),
            !.monitor_task = i,
            !.monitors[i] = "waiting"]

\* Variant: a failed spawn leaves the playback state as it was.
SpawnFailedKeepsState(m) == m

\* play, lines 73-86: subprocess.Popen raised.
SpawnFailed(m) == [m EXCEPT !.state = StateOf("error")]

SpawnOutcomes == {"ok", "PlayerUnavailable", "LaunchFailed"}

\* play from the spawn to its return (no await in between); m is the manager
\* as _stop_process left it.
PlaySpawn(i, m, f, rel, off) ==
  \E outcome \in SpawnOutcomes :
    IF outcome = "ok"
    THEN LET m2 == StartPlayback(m, i, rel, off, now)
         IN  SetMgr(m2) /\ Return(i, "play", f, off, TRUE, "none", m2.state)
    ELSE LET m2 == SpawnFailed(m)
         IN  SetMgr(m2) /\ Return(i, "play", f, off, FALSE, outcome, m2.state)

\* Variant: _stop_process awaits the exit without the caller holding the lock.
StopProcessBeginUnlocked(i, m, op, f, off) ==
  /\ SetMgr(m)
  /\ lockHolder' = 0
  /\ calls' = [calls EXCEPT ![i] = [pc |-> "term_wait", op |-> op,
                                    filename |-> f, offset |-> off,
                                    proc |-> m.process]]
  /\ UNCHANGED lastRet

\* Variant: _stop_process clears the handle before it waits for the exit.
StopProcessBeginClearsHandle(i, m, op, f, off) ==
  /\ SetMgr([m EXCEPT !.process = 0])
  /\ lockHolder' = i
  /\ calls' = [calls EXCEPT ![i] = [pc |-> "term_wait", op |-> op,
                                    filename |-> f, offset |-> off,
                                    proc |-> m.process]]
  /\ UNCHANGED lastRet

\* _stop_process up to its first await: process.terminate() is sent, then the
\* call keeps the lock while it waits up to the grace period for the exit
\* (pc "term_wait": terminated, "kill_wait": killed as well).
StopProcessBegin(i, m, op, f, off) ==
  /\ SetMgr(m)
  /\ lockHolder' = i
  /\ calls' = [calls EXCEPT ![i] = [pc |-> "term_wait", op |-> op,
                                    filename |-> f, offset |-> off,
                                    proc |-> m.process]]
  /\ UNCHANGED lastRet

\* Variant: play spawns the new player without stopping the one it holds.
PlayLockedNoStop(i, m, f, off) ==
  LET n == NormalizeFilename(f)
  IN  IF ~n.ok
      THEN SetMgr(m) /\ Return(i, "play", f, off, FALSE, "InvalidInput", m.state)
                     /\ lockHolder' = 0
      ELSE IF ~Exists(n.resolved)
           THEN LET m2 == [m EXCEPT !.state = StateOf("idle")]
                IN  SetMgr(m2) /\ Return(i, "play", f, off, FALSE, "FileNotFound", m2.state)
                               /\ lockHolder' = 0
           ELSE PlaySpawn(i, m, f, n.rel, off) /\ lockHolder' = 0

\* Variant: a rejected filename resets the playback state like a missing file.
PlayLockedResetOnInvalid(i, m, f, off) ==
  LET n == NormalizeFilename(f)
  IN  IF ~n.ok \/ ~Exists(n.resolved)
      THEN LET m2 == [m EXCEPT !.state = StateOf("idle")]
           IN  SetMgr(m2)
               /\ Return(i, "play", f, off, FALSE,
                         IF n.ok THEN "FileNotFound" ELSE "InvalidInput", m2.state)
               /\ lockHolder' = 0
      ELSE IF m.process = 0
           THEN PlaySpawn(i, m, f, n.rel, off) /\ lockHolder' = 0
           ELSE StopProcessBegin(i, m, "play", f, off)

\* Variant: play keeps the lock after the spawn, as it would if it awaited
\* the end of the player inside `async with self._lock`.
PlayLockedKeepsLock(i, m, f, off) ==
  LET n == NormalizeFilename(f)
  IN  IF ~n.ok
      THEN SetMgr(m) /\ Return(i, "play", f, off, FALSE, "InvalidInput", m.state)
                     /\ lockHolder' = 0
      ELSE IF ~Exists(n.resolved)
           THEN LET m2 == [m EXCEPT !.state = StateOf("idle")]
                IN  SetMgr(m2) /\ Return(i, "play", f, off, FALSE, "FileNotFound", m2.state)
                               /\ lockHolder' = 0
           ELSE IF m.process = 0
                THEN PlaySpawn(i, m, f, n.rel, off) /\ lockHolder' = i
                ELSE StopProcessBegin(i, m, "play", f, off)

\* play inside the lock, lines 54-63, for the filename f.
PlayLocked(i, m, f, off) ==
  LET n == NormalizeFilename(f)
  IN  IF ~n.ok
      THEN \* ValueError leaves the lock; server.py reports manager.state
           SetMgr(m) /\ Return(i, "play", f, off, FALSE, "InvalidInput", m.state)
                     /\ lockHolder' = 0
      ELSE IF ~Exists(n.resolved)
           THEN LET m2 == [m EXCEPT !.state = StateOf("idle")]
                IN  SetMgr(m2) /\ Return(i, "play", f, off, FALSE, "FileNotFound", m2.state)
                               /\ lockHolder' = 0
           ELSE IF m.process = 0
                THEN PlaySpawn(i, m, f, n.rel, off) /\ lockHolder' = 0
                ELSE StopProcessBegin(i, m, "play", f, off)

\* Variant: stop with no process held returns without touching the state.
StopLockedKeepState(i, m) ==
  IF m.process = 0
  THEN SetMgr(m) /\ Return(i, "stop", None, 0, TRUE, "none", m.state)
                 /\ lockHolder' = 0
  ELSE StopProcessBegin(i, m, "stop", None, 0)

\* stop inside the lock, lines 107-111.
StopLocked(i, m) ==
  IF m.process = 0
  THEN LET m2 == [m EXCEPT !.state = StateOf("stopped")]
       IN  SetMgr(m2) /\ Return(i, "stop", None, 0, TRUE, "none", m2.state)
                      /\ lockHolder' = 0
  ELSE StopProcessBegin(i, m, "stop", None, 0)

\* Variant: status notices that the held process has ended and reconciles.
StatusLockedReconciles(i, m) ==
  LET m2 == IF m.process # 0 /\ m.procs[m.process] = "dead"
            THEN [m EXCEPT !.process = 0, !.state = StateOf("stopped")]
            ELSE m
  IN  SetMgr(m2) /\ Return(i, "status", None, 0, TRUE, "none", m2.state)
                 /\ lockHolder' = 0

\* status inside the lock, lines 117-123.
StatusLocked(i, m) ==
  SetMgr(m) /\ Return(i, "status", None, 0, TRUE, "none", m.state)
            /\ lockHolder' = 0

Locked(i, m, op, f, off) ==
  IF op = "play" THEN PlayLocked(i, m, f, off)
  ELSE IF op = "stop" THEN StopLocked(i, m)
  ELSE StatusLocked(i, m)

\* `async with self._lock` when the lock cannot be taken at once.
Enqueue(i, op, f, off) ==
  /\ waiters' = Append(waiters, CallTask(i))
  /\ calls' = [calls EXCEPT ![i] = [pc |-> "queued", op |-> op,
                                    filename |-> IF op = "play" THEN f ELSE None,
                                    offset |-> IF op = "play" THEN off ELSE 0,
                                    proc |-> 0]]
  /\ UNCHANGED <<state, process, monitor_task, monitors, procs, lockHolder, lastRet>>

\* -------------------------------------------------------------- actions
Actions == {"play", "stop", "status"}

\* server.py audio_playback: one tool call, from its arrival to its first await.
AudioPlayback(i, action, f, off) ==
  /\ calls[i].pc = "idle"
  /\ \A j \in CallIds : j < i => calls[j].pc # "idle"
  /\ IF action = "play" /\ f.segs = <<>> /\ ~f.abs
     THEN /\ Return(i, action, f, off, FALSE, "FilenameRequired", state)
          /\ UNCHANGED <<state, process, monitor_task, monitors, procs,
                         lockHolder, waiters>>
     ELSE IF off < 0
          THEN /\ Return(i, action, f, off, FALSE, "NegativeOffset", state)
               /\ UNCHANGED <<state, process, monitor_task, monitors, procs,
                              lockHolder, waiters>>
          ELSE IF LockFree
               THEN Locked(i, Mgr, action, f, off)
               ELSE Enqueue(i, action, f, off)
  /\ UNCHANGED now

\* A queued call is first in the queue of the free lock: it enters.
AcquireLock(i) ==
  /\ calls[i].pc = "queued"
  /\ lockHolder = 0
  /\ waiters # <<>> /\ Head(waiters) = CallTask(i)
  /\ Locked(i, [Mgr EXCEPT !.waiters = Tail(waiters)],
            calls[i].op, calls[i].filename, calls[i].offset)
  /\ UNCHANGED now

\* _stop_process after its wait returned (within the grace period, or after
\* the kill): the finally block, then the rest of play or stop.
StopProcessDone(i) ==
  /\ calls[i].pc \in {"term_wait", "kill_wait"}
  /\ procs[calls[i].proc] = "dead"
  /\ LET m == StopProcessFinally(Mgr)
     IN  IF calls[i].op = "play"
         THEN PlaySpawn(i, m, calls[i].filename,
                        NormalizeFilename(calls[i].filename).rel, calls[i].offset)
         ELSE LET m2 == [m EXCEPT !.state = StateOf("stopped")]
              IN  SetMgr(m2) /\ Return(i, "stop", None, 0, TRUE, "none", m2.state)
  /\ lockHolder' = 0
  /\ UNCHANGED now

\* _stop_process, asyncio.TimeoutError: the grace period ended with the
\* process still running; process.kill(), then wait without a limit.
StopProcessTimeout(i) ==
  /\ calls[i].pc = "term_wait"
  /\ procs[calls[i].proc] = "alive"
  /\ calls' = [calls EXCEPT ![i].pc = "kill_wait"]
  /\ UNCHANGED <<state, process, monitor_task, monitors, procs, lockHolder,
                 waiters, now, lastRet>>

\* A player process ends: end of stream, a signal, a crash.
ProcessExit(p) ==
  /\ procs[p] = "alive"
  /\ procs' = [procs EXCEPT ![p] = "dead"]
  /\ UNCHANGED <<state, process, monitor_task, monitors, lockHolder, waiters,
                 calls, now, lastRet>>

\* Variant: the monitor reconciles without comparing the handle with its own.
ReconcileAnyHandle(m, p) ==
  [m EXCEPT !.process = 0,
            !.state = IF m.state.status = "playing"
                      THEN StateOf("stopped") ELSE m.state]

\* Variant: the monitor sets stopped whatever status it finds.
ReconcileAlwaysStops(m, p) ==
  IF m.process = p
  THEN [m EXCEPT !.process = 0, !.state = StateOf("stopped")]
  ELSE m

\* Variant: the monitor clears the handle and leaves the state alone.
ReconcileHandleOnly(m, p) ==
  IF m.process = p THEN [m EXCEPT !.process = 0] ELSE m

\* Variant: the monitor assigns the status field of the state it finds.
ReconcileStatusField(m, p) ==
  IF m.process = p
  THEN [m EXCEPT !.process = 0,
                 !.state = IF m.state.status = "playing"
                           THEN [m.state EXCEPT !.status = "stopped"]
                           ELSE m.state]
  ELSE m

\* _monitor_process, the reconciliation inside the lock, lines 147-150.
Reconcile(m, p) ==
  IF m.process = p
  THEN [m EXCEPT !.process = 0,
                 !.state = IF m.state.status = "playing"
                           THEN StateOf("stopped") ELSE m.state]
  ELSE m

\* _monitor_process leaves its wait (the process ended, or the task was
\* cancelled) and enters the finally block.
MonitorWake(p) ==
  /\ \/ monitors[p] = "waiting" /\ procs[p] = "dead"
     \/ monitors[p] = "cancelled"
  /\ IF LockFree
     THEN SetMgr(Reconcile([Mgr EXCEPT !.monitors[p] = "done"], p))
     ELSE SetMgr([Mgr EXCEPT !.monitors[p] = "locking",
                             !.waiters = Append(waiters, MonitorTask(p))])
  /\ UNCHANGED <<lockHolder, calls, now, lastRet>>

\* A monitor queued for the lock is first in the queue of the free lock.
MonitorAcquire(p) ==
  /\ monitors[p] = "locking"
  /\ lockHolder = 0
  /\ waiters # <<>> /\ Head(waiters) = MonitorTask(p)
  /\ SetMgr(Reconcile([Mgr EXCEPT !.monitors[p] = "done",
                                  !.waiters = Tail(waiters)], p))
  /\ UNCHANGED <<lockHolder, calls, now, lastRet>>

\* time.time() is the wall clock: it may also be set back.
Tick ==
  /\ \E t \in Times : t # now /\ now' = t
  /\ UNCHANGED <<state, process, monitor_task, monitors, procs, lockHolder,
                 waiters, calls, lastRet>>

\* The arguments the tool calls are made with: two files that exist (one of
\* them also from an offset), a name whose extension is inferred and whose
\* file is missing, a name with a `..` segment that stays under the root, one
\* that leaves it, an absolute name, the empty name and a negative offset.
Arg(abs, segs, off) == [filename |-> [abs |-> abs, segs |-> segs], offset |-> off]

Inputs ==
  {Arg(FALSE, <<ClipWav>>, 0),
   Arg(FALSE, <<ClipWav>>, MaxOffset),
   Arg(FALSE, <<SubDir, ClipWav>>, 0),
   Arg(FALSE, <<SubDir>>, 0),
   Arg(FALSE, <<SubDir, DotDot, ClipBare>>, 0),
   Arg(FALSE, <<DotDot, ClipWav>>, 0),
   Arg(TRUE, <<ClipWav>>, 0),
   Arg(FALSE, <<>>, 0),
   Arg(FALSE, <<ClipWav>>, -1)}

Next ==
  \/ \E i \in CallIds, a \in Actions, x \in Inputs :
       AudioPlayback(i, a, x.filename, x.offset)
  \/ \E i \in CallIds : AcquireLock(i)
  \/ \E i \in CallIds : StopProcessDone(i)
  \/ \E i \in CallIds : StopProcessTimeout(i)
  \/ \E p \in Pids : ProcessExit(p)
  \/ \E p \in Pids : MonitorWake(p)
  \/ \E p \in Pids : MonitorAcquire(p)
  \/ Tick

Spec == Init /\ [][Next]_vars

\* The event loop runs every task that is ready: a task at the head of the
\* free lock's queue, a caller whose wait on the process has ended (by the
\* exit, or by the 3 s limit of wait_for), a monitor whose wait has ended.
\* Tool calls, the clock and the end of a player that was not force-killed
\* are left to the environment.  A player that was sent SIGKILL ends.
KilledProcessExit(p) ==
  /\ \E i \in CallIds : calls[i].pc = "kill_wait" /\ calls[i].proc = p
  /\ ProcessExit(p)

Fairness ==
  /\ \A i \in CallIds : /\ WF_vars(AcquireLock(i))
                         /\ WF_vars(StopProcessDone(i))
                         /\ WF_vars(StopProcessTimeout(i))
  /\ \A p \in Pids : /\ WF_vars(MonitorWake(p))
                      /\ WF_vars(MonitorAcquire(p))
                      /\ WF_vars(KilledProcessExit(p))

\* Which task is ready depends neither on the clock nor on the name played
\* beyond the branch play takes, so the fair specification keeps the clock
\* still and calls with one name per branch: a file that exists, a file that
\* is missing and a name that is refused.
FairInputs ==
  {Arg(FALSE, <<ClipWav>>, 0),
   Arg(FALSE, <<SubDir>>, 0),
   Arg(FALSE, <<DotDot, ClipWav>>, 0)}

NextFair ==
  \/ \E i \in CallIds, a \in Actions, x \in FairInputs :
       AudioPlayback(i, a, x.filename, x.offset)
  \/ \E i \in CallIds : AcquireLock(i)
  \/ \E i \in CallIds : StopProcessDone(i)
  \/ \E i \in CallIds : StopProcessTimeout(i)
  \/ \E p \in Pids : ProcessExit(p)
  \/ \E p \in Pids : MonitorWake(p)
  \/ \E p \in Pids : MonitorAcquire(p)

FairSpec == Init /\ [][NextFair]_vars /\ Fairness

\* ------------------------------------------- _normalize_filename alone
\* manager.play called on a fresh manager with any filename of up to MaxSegs
\* segments: the call is about to enter the lock.
InitPath ==
  /\ state = StateOf("idle")
  /\ process = 0
  /\ monitor_task = 0
  /\ monitors = [p \in Pids |-> "none"]
  /\ procs = [p \in Pids |-> "unspawned"]
  /\ lockHolder = 0
  /\ waiters = <<CallTask(1)>>
  /\ \E f \in AllFilenames :
       calls = [i \in CallIds |->
                 IF i = 1
                 THEN [pc |-> "queued", op |-> "play", filename |-> f,
                       offset |-> 0, proc |-> 0]
                 ELSE IdleCall]
  /\ now = 0
  /\ lastRet = NoRet

NextPath == \E i \in CallIds : AcquireLock(i)

SpecPath == InitPath /\ [][NextPath]_vars

\* ---------------------------------------------------------------- claims
\* The player processes now running.
Alive == {p \in Pids : procs[p] = "alive"}

\* Call i returns in this step.
Returns(i) == calls[i].pc # "done" /\ calls'[i].pc = "done"

\* The monitor bound to p takes a step of its own in this step.
MonitorStep(p) ==
  /\ monitors[p] \in {"waiting", "cancelled", "locking"}
  /\ monitors'[p] # monitors[p]
  /\ UNCHANGED calls

\* C1: at most one player process is alive in every reachable state, and a
\* process is spawned only in a state where no process is alive
\* (terminate-then-spawn).
C1_AtMostOneAlive ==
  /\ [](Cardinality(Alive) <= 1)
  /\ [][\A p \in Pids :
          procs[p] = "unspawned" /\ procs'[p] = "alive" => Alive = {}]_vars

\* A second player runs after the first one was terminated.
C1_Witness ==
  \E p, q \in Pids : procs[p] = "dead" /\ procs[q] = "alive" /\ process = q

\* C2: once concurrent play calls have returned, the play that entered the
\* gate last (the last one to return successfully) owns the only running
\* process, as long as that process has not ended: the handle is its process,
\* the status is playing and current_file is its normalized filename.
C2_LastPlayWins ==
  (lastRet.op = "play" /\ lastRet.success /\ procs[lastRet.id] = "alive")
    => /\ Alive = {lastRet.id}
       /\ process = lastRet.id
       /\ state.status = "playing"
       /\ state.current_file = Some(NormalizeFilename(lastRet.filename).rel)

\* Three plays ran, each superseding the one before; the last one plays a
\* file other than the one the first one played.
C2_Witness ==
  /\ lastRet.op = "play" /\ lastRet.success /\ lastRet.id = 3
  /\ procs[1] = "dead" /\ procs[2] = "dead" /\ procs[3] = "alive"
  /\ \A i \in CallIds : calls[i].pc \in {"idle", "done"}
  /\ lastRet.filename.segs = <<SubDir, ClipWav>>

\* C3: a step of a monitor whose process is not the held handle changes
\* neither the playback state nor the handle nor the monitor reference.
C3_StaleMonitorKeepsState ==
  [][\A p \in Pids :
       (MonitorStep(p) /\ process # p)
         => UNCHANGED <<state, process, monitor_task>>]_vars

\* The monitor of a superseded process has still to run its finally block
\* while the process that superseded it is playing.
C3_Witness ==
  \E p, q \in Pids :
    /\ p # q
    /\ monitors[p] \in {"cancelled", "locking"}
    /\ procs[p] = "dead"
    /\ process = q /\ procs[q] = "alive" /\ state.status = "playing"

\* C4: when a play or stop call returns, the manager holds a process handle
\* only if the status is playing.
C4_NoDanglingHandle ==
  [][\A i \in CallIds :
       (Returns(i) /\ lastRet'.op \in {"play", "stop"})
         => (process' # 0 => state'.status = "playing")]_vars

\* C5: a play call that fails because the file is missing returns status
\* idle with no player process running (the prior one was stopped first).
C5_MissingFileStopsPrior ==
  [][\A i \in CallIds :
       (Returns(i) /\ lastRet'.err = "FileNotFound")
         => /\ ~lastRet'.success
            /\ lastRet'.response.status = "idle"
            /\ Alive' = {}]_vars

\* C6: every stop that reaches the manager returns success with the state
\* stopped (no current_file, no started_at), leaves that state and no handle;
\* so does a stop issued right after a stop.
C6_StopIdempotent ==
  [][\A i \in CallIds :
       (Returns(i) /\ lastRet'.op = "stop" /\ lastRet'.err # "NegativeOffset")
         => /\ lastRet'.success
            /\ lastRet'.response = ToResponse(StateOf("stopped"), now)
            /\ state' = StateOf("stopped")
            /\ state'.current_file = None /\ state'.started_at_ms = None
            /\ process' = 0]_vars

\* A stop has returned and the next stop is waiting to enter the gate.
C6_Witness ==
  /\ lastRet.op = "stop" /\ lastRet.success
  /\ state = StateOf("stopped") /\ process = 0
  /\ \E p \in Pids : procs[p] = "dead"
  /\ \E i \in CallIds : calls[i].pc = "queued" /\ calls[i].op = "stop"

\* The filename has a `..` segment.
HasDotDot(f) == \E k \in 1..Len(f.segs) : f.segs[k] = DotDot

\* How far below the directory it starts from the path made of the first k
\* segments ends: its other segments minus its `..` segments.
C7_Depth(segs, k) ==
  Cardinality({j \in 1..k : segs[j] # DotDot})
    - Cardinality({j \in 1..k : segs[j] = DotDot})

\* The path climbs above the root at some segment.  A last segment `..` is
\* given the default suffix and is an ordinary name, so only the segments
\* before the last one can climb; no segment here names a way back in.
C7_ClimbsAboveRoot(segs) ==
  \E k \in 1..(Len(segs) - 1) : C7_Depth(segs, k) < 0

\* C7 as stated: every filename with a `..` segment or an absolute prefix
\* makes play fail with InvalidInput.
C7_DotDotAlwaysInvalid ==
  (lastRet.op = "play"
     /\ (HasDotDot(lastRet.filename) \/ lastRet.filename.abs))
    => lastRet.err = "InvalidInput"

\* C7 amended: play fails with InvalidInput, spawning nothing, for every
\* filename that is absolute or whose path climbs above the root; a relative
\* filename whose `..` segments stay under the root is not InvalidInput.
C7_EscapingIsInvalid ==
  lastRet.op = "play" =>
    LET f == lastRet.filename
    IN  /\ (f.abs \/ C7_ClimbsAboveRoot(f.segs))
             => (lastRet.err = "InvalidInput" /\ ~lastRet.success
                 /\ procs[lastRet.id] = "unspawned")
        /\ (~f.abs /\ f.segs # <<>> /\ ~C7_ClimbsAboveRoot(f.segs))
             => lastRet.err # "InvalidInput"

\* A name with a `..` segment that leaves the root was rejected.
C7_Witness ==
  /\ lastRet.op = "play" /\ lastRet.err = "InvalidInput"
  /\ ~lastRet.filename.abs
  /\ HasDotDot(lastRet.filename)
  /\ Len(lastRet.filename.segs) = MaxSegs

\* C8: a play call that fails with InvalidInput leaves the playback state,
\* the handle, the monitor and the processes as they were and reports that
\* state; the gate is free when it was refused inside the gate, and
\* untouched when the empty name was refused by the tool handler.
C8_InvalidInputChangesNothing ==
  [][\A i \in CallIds :
       (Returns(i) /\ lastRet'.op = "play"
          /\ lastRet'.err \in {"InvalidInput", "FilenameRequired"})
         => /\ UNCHANGED <<state, process, monitor_task, monitors, procs>>
            /\ lastRet'.err = "InvalidInput" => lockHolder' = 0
            /\ lastRet'.err = "FilenameRequired" => UNCHANGED lockHolder
            /\ ~lastRet'.success
            /\ lastRet'.response = ToResponse(state, now)]_vars

\* A play was rejected while a session was playing, and it still plays.
C8_Witness ==
  /\ lastRet.op = "play" /\ lastRet.err = "InvalidInput"
  /\ state.status = "playing" /\ process # 0 /\ procs[process] = "alive"
  /\ monitors[process] = "waiting"
  /\ lockHolder = 0

\* C9: a play call whose spawn fails returns failure with status error,
\* holds no handle, has created no process and no monitor, and leaves no
\* player process running.
C9_SpawnFailure ==
  [][\A i \in CallIds :
       (Returns(i) /\ lastRet'.err \in {"PlayerUnavailable", "LaunchFailed"})
         => /\ lastRet'.op = "play" /\ ~lastRet'.success
            /\ lastRet'.response.status = "error"
            /\ state' = StateOf("error")
            /\ process' = 0
            /\ procs'[i] = "unspawned" /\ monitors'[i] = "none"
            /\ monitor_task' # i
            /\ Alive' = {}]_vars

\* The spawn failed in a play that had first terminated a running player.
C9_Witness ==
  /\ lastRet.err \in {"PlayerUnavailable", "LaunchFailed"}
  /\ state.status = "error" /\ process = 0
  /\ \E p \in Pids : procs[p] = "dead" /\ monitors[p] = "cancelled"

\* The normalized relative path of a filename that passes the path check:
\* the segments as given, the last one with the default suffix if it has none.
C10_Relative(f) ==
  [k \in 1..Len(f.segs) |->
     IF k = Len(f.segs) /\ f.segs[k].ext = ""
     THEN [name |-> f.segs[k].name, ext |-> "wav"]
     ELSE f.segs[k]]

\* C10: a successful play(name, loop, offset) returns with status playing,
\* current_file the normalized relative path of name, started_at the time of
\* the spawn, start_offset the offset, the new process as the handle and the
\* monitor of that process waiting for it.
C10_PlaySuccess ==
  [][\A i \in CallIds :
       (Returns(i) /\ lastRet'.op = "play" /\ lastRet'.success)
         => /\ state' = PlaybackState("playing",
                                      Some(C10_Relative(lastRet'.filename)),
                                      Some(now), lastRet'.offset)
            /\ lastRet'.response = ToResponse(state', now)
            /\ procs[i] = "unspawned" /\ procs'[i] = "alive"
            /\ process' = i
            /\ monitor_task' = i
            /\ monitors'[i] = "waiting"
            /\ \A p \in Pids \ {i} : monitors'[p] # "waiting"]_vars

\* A play from a positive offset succeeded at a time other than 0, for a
\* name whose extension was inferred, superseding an earlier player.
C10_Witness ==
  /\ lastRet.op = "play" /\ lastRet.success /\ lastRet.offset > 0
  /\ state.status = "playing" /\ state.start_offset_ms = lastRet.offset
  /\ state.started_at_ms = Some(MaxTime)
  /\ process = lastRet.id
  /\ \E p \in Pids : procs[p] = "dead"

\* C11: in every reachable state current_file and started_at_ms are both
\* present or both absent, and they are present exactly when the status is
\* playing; a state that is not playing is the default state of its status.
C11_FilePresentIffPlaying ==
  /\ (state.current_file # None) <=> (state.started_at_ms # None)
  /\ (state.current_file # None) <=> (state.status = "playing")
  /\ state.status # "playing" => state = StateOf(state.status)

\* The monitor has reconciled the exit of a player that played from an offset.
C11_Witness ==
  /\ state = StateOf("stopped")
  /\ process = 0
  /\ \E p \in Pids : procs[p] = "dead" /\ monitors[p] = "done"
  /\ lastRet.op = "play" /\ lastRet.success /\ lastRet.offset > 0

\* C12: the snapshot's position_estimate_ms is absent when the status is not
\* playing or started_at_ms is absent; for a playing state with started_at_ms
\* T0 and start_offset_ms O sampled at time T it is O + (T - T0) when T >= T0
\* and O when T < T0, so it is never below O.
C12_PositionEstimate ==
  LET r == ToResponse(state, now)
  IN  /\ (state.status # "playing" \/ state.started_at_ms = None)
           => r.position_estimate_ms = None
      /\ (state.status = "playing" /\ state.started_at_ms # None)
           => LET T0 == state.started_at_ms[1]
                  O == state.start_offset_ms
              IN  /\ now >= T0 => r.position_estimate_ms = <<O + (now - T0)>>
                  /\ now < T0 => r.position_estimate_ms = <<O>>
                  /\ r.position_estimate_ms[1] >= O

\* A playing state is sampled after the clock was set back before its start.
C12_Witness ==
  /\ state.status = "playing" /\ state.start_offset_ms > 0
  /\ state.started_at_ms # None /\ now < state.started_at_ms[1]

\* C13: a status call that reaches the manager succeeds, leaves the playback
\* state, the handle, the monitor and the processes unchanged, leaves the
\* gate free and returns the snapshot of the state it found.
C13_StatusChangesNothing ==
  [][\A i \in CallIds :
       (Returns(i) /\ lastRet'.op = "status" /\ lastRet'.err # "NegativeOffset")
         => /\ lastRet'.success
            /\ UNCHANGED <<state, process, monitor_task, monitors, procs>>
            /\ lockHolder' = 0
            /\ lastRet'.response = ToResponse(state, now)]_vars

\* A status call returned while the held player had ended and its monitor
\* had not yet reconciled.
C13_Witness ==
  /\ lastRet.op = "status" /\ lastRet.success
  /\ lastRet.response.status = "playing"
  /\ state.status = "playing" /\ process # 0 /\ procs[process] = "dead"

\* C14: in every reachable state where the manager holds no handle, no
\* player process it spawned is alive.
C14_NoHandleNoProcess == process = 0 => Alive = {}

\* The handle was cleared after a player ran and ended.
C14_Witness ==
  /\ process = 0
  /\ \E p \in Pids : procs[p] = "dead"
  /\ \E i \in CallIds : calls[i].pc = "idle"

\* C15: when the held process has ended by itself while the status is
\* playing, the handle is eventually cleared and, unless a later play call
\* took over (new handle, or status idle or error), the status is then
\* stopped; the monitor's reconciliation of its own handle clears the handle,
\* turns playing into stopped and leaves any other state as it was.
C15_MonitorReconciles ==
  /\ \A p \in Pids :
       (process = p /\ procs[p] = "dead" /\ state.status = "playing")
         ~> (process # p /\ (process = 0 => state.status # "playing"))
  /\ [][\A p \in Pids :
          (MonitorStep(p) /\ monitors'[p] = "done" /\ process = p)
            => /\ process' = 0
               /\ state' = IF state.status = "playing" THEN StateOf("stopped")
                           ELSE state]_vars

\* One play call, no other call: the player has ended and its monitor has
\* reconciled.
C15_Witness ==
  /\ state = StateOf("stopped") /\ process = 0
  /\ calls[1].pc = "done"
  /\ lastRet.id = 1 /\ lastRet.op = "play" /\ lastRet.success
  /\ \A i \in CallIds \ {1} : calls[i].pc = "idle"
  /\ procs[1] = "dead" /\ monitors[1] = "done"

\* C16: stop-current sends the kill only from its wait after the terminate,
\* with the process still running; it ends, after either wait, only when the
\* process has ended, and then the handle is cleared and the monitor bound to
\* the process is no longer waiting for it nor queued for the gate.
C16_TwoPhaseStop ==
  [][\A i \in CallIds :
       /\ (calls[i].pc # "kill_wait" /\ calls'[i].pc = "kill_wait")
            => /\ calls[i].pc = "term_wait"
               /\ procs[calls[i].proc] = "alive"
               /\ process = calls[i].proc
       /\ (calls[i].pc # "term_wait" /\ calls'[i].pc = "term_wait")
            => /\ calls[i].pc \in {"idle", "queued"}
               /\ process' = calls'[i].proc /\ process' # 0
       /\ (calls[i].pc \in {"term_wait", "kill_wait"} /\ calls'[i].pc = "done")
            => /\ procs[calls[i].proc] = "dead"
               /\ process' # calls[i].proc
               /\ monitor_task' # calls[i].proc
               /\ monitors'[calls[i].proc] \notin {"waiting", "locking"}]_vars

\* The killed process has ended while its monitor is queued for the gate:
\* stop-current is about to end after its second wait.
C16_Witness ==
  \E i \in CallIds :
    /\ calls[i].pc = "kill_wait"
    /\ procs[calls[i].proc] = "dead"
    /\ monitors[calls[i].proc] = "locking"

\* C17: under fair scheduling, and with a force-killed process ending, every
\* call that waits for the gate or for the process returns, every monitor
\* queued for the gate leaves the queue, and the gate is free again and again.
C17_CallsReturn ==
  /\ \A i \in CallIds :
       (calls[i].pc \in {"queued", "term_wait", "kill_wait"})
         ~> (calls[i].pc = "done")
  /\ \A p \in Pids :
       (monitors[p] = "locking") ~> (monitors[p] \in {"done", "aborted"})
  /\ []<>(lockHolder = 0)

\* A process that ignored the terminate has been killed; its monitor and
\* another call are queued for the gate.
C17_Witness ==
  \E i, j \in CallIds :
    /\ calls[i].pc = "kill_wait"
    /\ calls[j].pc = "queued"
    /\ monitors[calls[i].proc] = "locking"

\* C18: the gate is held only by a play or stop call that is inside
\* stop-current, never by a monitor; so while a player is playing and no call
\* is inside stop-current the gate is free, and a call issued when no task is
\* queued for it either runs without being queued.
C18_GateFreeWhilePlaying ==
  /\ []((\A i \in CallIds : calls[i].pc \notin {"term_wait", "kill_wait"})
          => lockHolder = 0)
  /\ [](lockHolder # 0 => calls[lockHolder].pc \in {"term_wait", "kill_wait"})
  /\ [][\A i \in CallIds :
          ( /\ calls[i].pc = "idle" /\ calls'[i].pc # "idle"
            /\ state.status = "playing"
            /\ \A j \in CallIds : calls[j].pc \in {"idle", "done"}
            /\ waiters = <<>> )
            => calls'[i].pc # "queued"]_vars

\* A status call returned the playing state while the player was running and
\* its monitor was waiting for it.
C18_Witness ==
  /\ lastRet.op = "status" /\ lastRet.success
  /\ lastRet.response.status = "playing"
  /\ state.status = "playing" /\ process # 0 /\ procs[process] = "alive"
  /\ monitors[process] = "waiting"
  /\ lockHolder = 0 /\ waiters = <<>>

\* C19 as stated: the status leaves idle only for playing, playing only for
\* stopped or error, stopped and error only for playing, and idle is never
\* entered again.
C19_StatusCycle ==
  [][state'.status # state.status
       => \/ state.status = "idle" /\ state'.status = "playing"
          \/ state.status = "playing" /\ state'.status \in {"stopped", "error"}
          \/ state.status \in {"stopped", "error"} /\ state'.status = "playing"]_vars

\* C19: the state changes only in these ways, each from any status: to
\* playing when a play returns success, to idle when a play returns
\* FileNotFound, to error when a play returns a spawn failure, to stopped when
\* a stop returns; and from playing to stopped when the monitor of the held
\* process reconciles.
C19_StatusChanges ==
  [][state' # state
       => \/ \E i \in CallIds :
               /\ Returns(i) /\ lastRet'.id = i
               /\ \/ /\ lastRet'.op = "play" /\ lastRet'.success
                     /\ state'.status = "playing"
                  \/ /\ lastRet'.op = "play" /\ lastRet'.err = "FileNotFound"
                     /\ state' = StateOf("idle")
                  \/ /\ lastRet'.op = "play"
                     /\ lastRet'.err \in {"PlayerUnavailable", "LaunchFailed"}
                     /\ state' = StateOf("error")
                  \/ /\ lastRet'.op = "stop" /\ lastRet'.success
                     /\ state' = StateOf("stopped")
          \/ \E p \in Pids :
               /\ MonitorStep(p) /\ monitors'[p] = "done"
               /\ process = p /\ procs[p] = "dead"
               /\ state.status = "playing" /\ state' = StateOf("stopped")]_vars

\* idle entered again: after a player had been started and had ended, a play
\* of a missing file returned.
C19_Witness ==
  /\ state.status = "idle"
  /\ lastRet.op = "play" /\ lastRet.err = "FileNotFound"
  /\ \E p \in Pids : procs[p] = "dead"

\* C20: whenever the gate is free and the status is playing, the manager
\* holds a handle, it is the process spawned last and the monitor task is the
\* one bound to it; and a step that sets a playing state or a new handle is
\* the return of the play call that spawned this handle in that step and
\* whose normalized filename is current_file.
C20_PlayingHandle ==
  /\ []((lockHolder = 0 /\ state.status = "playing")
          => /\ process # 0
             /\ procs[process] # "unspawned"
             /\ \A q \in Pids : procs[q] # "unspawned" => q <= process
             /\ monitor_task = process)
  /\ [][(state'.status = "playing" /\ (state' # state \/ process' # process))
          => \E i \in CallIds :
               /\ Returns(i) /\ lastRet'.id = i
               /\ lastRet'.op = "play" /\ lastRet'.success
               /\ procs[i] = "unspawned" /\ procs'[i] = "alive"
               /\ process' = i
               /\ state'.current_file = Some(C10_Relative(lastRet'.filename))]_vars

\* The status is playing with the gate free while the held player has ended
\* and two earlier players had been superseded.
C20_Witness ==
  /\ lockHolder = 0 /\ state.status = "playing"
  /\ process = MaxCalls /\ procs[process] = "dead"
  /\ \A p \in Pids : procs[p] = "dead"
====
